---- MODULE Spec2Model ----
(***************************************************************************)
(* The driver cache of dylint (dylint/src/driver_builder.rs): get,         *)
(* dylint_drivers, is_outdated, build and initialize, over an abstract     *)
(* file system.  Text (the output of `dylint-driver -V`, CARGO_PKG_VERSION)*)
(* is a sequence of one-character strings; semver::Version::parse and the  *)
(* precedence order are computed on those characters.                      *)
(***************************************************************************)
EXTENDS Integers, Sequences, FiniteSets, TLC

\* ------------------------------------------------------------------ bounds
\* Versions major.minor.patch with major + minor + patch <= MaxVer.
MaxVer == 1

\* ------------------------------------------------------------- characters
Digits == {"0", "1", "2", "3", "4", "5", "6", "7", "8", "9"}
Letters == {"a", "d"}
\* The byte 0xff, which is never part of a UTF-8 encoding.
BadByte == "#"
\* char::is_whitespace, on the characters of the model.
NL == "\n"
IsWhitespace(c) == c \in {" ", NL}

DigitVal(c) ==
    CASE c = "0" -> 0 [] c = "1" -> 1 [] c = "2" -> 2 [] c = "3" -> 3
      [] c = "4" -> 4 [] c = "5" -> 5 [] c = "6" -> 6 [] c = "7" -> 7
      [] c = "8" -> 8 [] c = "9" -> 9

DigitChar(n) ==
    CASE n = 0 -> "0" [] n = 1 -> "1" [] n = 2 -> "2" [] n = 3 -> "3"
      [] n = 4 -> "4" [] n = 5 -> "5" [] n = 6 -> "6" [] n = 7 -> "7"
      [] n = 8 -> "8" [] n = 9 -> "9"

\* ASCII order of the characters an identifier may contain.
Ord(c) ==
    CASE c = "-" -> 45 [] c \in Digits -> 48 + DigitVal(c)
      [] c = "a" -> 97 [] c = "d" -> 100

\* ------------------------------------------------------------ str helpers
\* std::str::from_utf8: fails on a byte sequence that is not UTF-8.
FromUtf8Ok(bytes) == \A i \in 1..Len(bytes) : bytes[i] # BadByte

RECURSIVE TrimEnd(_)
\* str::trim_end: drops trailing whitespace.
TrimEnd(s) ==
    IF s = <<>> THEN s
    ELSE IF IsWhitespace(s[Len(s)]) THEN TrimEnd(SubSeq(s, 1, Len(s) - 1))
    ELSE s

\* Positions of the character c in s.
Positions(s, c) == {i \in 1..Len(s) : s[i] = c}

SetMax(S) == CHOOSE x \in S : \A y \in S : y <= x
SetMin(S) == CHOOSE x \in S : \A y \in S : x <= y

\* str::rsplit_once(' ').map(|pair| pair.1): the text after the last space.
RSplitOnce(s) ==
    IF Positions(s, " ") = {} THEN [some |-> FALSE, tail |-> <<>>]
    ELSE [some |-> TRUE, tail |-> SubSeq(s, SetMax(Positions(s, " ")) + 1, Len(s))]

RECURSIVE Split(_, _)
\* str::split(c): the pieces of s between occurrences of c.
Split(s, c) ==
    IF Positions(s, c) = {} THEN <<s>>
    ELSE LET i == SetMin(Positions(s, c))
         IN  <<SubSeq(s, 1, i - 1)>> \o Split(SubSeq(s, i + 1, Len(s)), c)

\* ------------------------------------------------------------------ semver
AllDigits(s) == s # <<>> /\ \A i \in 1..Len(s) : s[i] \in Digits

\* A numeric identifier: digits, no leading zero.
IsNumeric(s) == AllDigits(s) /\ (Len(s) > 1 => s[1] # "0")

RECURSIVE NumVal(_)
NumVal(s) ==
    IF s = <<>> THEN 0
    ELSE 10 * NumVal(SubSeq(s, 1, Len(s) - 1)) + DigitVal(s[Len(s)])

\* A pre-release identifier: [0-9A-Za-z-]+, numeric ones without leading zero.
IsPreIdent(s) ==
    /\ s # <<>>
    /\ \A i \in 1..Len(s) : s[i] \in Digits \cup Letters \cup {"-"}
    /\ (AllDigits(s) => IsNumeric(s))

NoVersion == [ok |-> FALSE, major |-> 0, minor |-> 0, patch |-> 0, pre |-> <<>>]

\* semver::Version::parse: MAJOR.MINOR.PATCH, optionally followed by
\* -IDENT(.IDENT)*.
VersionParse(s) ==
    LET hy   == Positions(s, "-")
        core == IF hy = {} THEN s ELSE SubSeq(s, 1, SetMin(hy) - 1)
        tail == IF hy = {} THEN <<>> ELSE SubSeq(s, SetMin(hy) + 1, Len(s))
        nums == Split(core, ".")
        ids  == IF hy = {} THEN <<>> ELSE Split(tail, ".")
    IN  IF /\ Len(nums) = 3
           /\ \A i \in 1..3 : IsNumeric(nums[i])
           /\ \A i \in 1..Len(ids) : IsPreIdent(ids[i])
        THEN [ok |-> TRUE, major |-> NumVal(nums[1]), minor |-> NumVal(nums[2]),
              patch |-> NumVal(nums[3]), pre |-> ids]
        ELSE NoVersion

RECURSIVE SeqLess(_, _)
\* Lexicographic order of two character strings by ASCII code.
SeqLess(a, b) ==
    IF b = <<>> THEN FALSE
    ELSE IF a = <<>> THEN TRUE
    ELSE IF a[1] # b[1] THEN Ord(a[1]) < Ord(b[1])
    ELSE SeqLess(Tail(a), Tail(b))

\* Order of two pre-release identifiers: numeric by value, numeric before
\* alphanumeric, alphanumeric by ASCII.
IdentLess(a, b) ==
    IF AllDigits(a) /\ AllDigits(b) THEN NumVal(a) < NumVal(b)
    ELSE IF AllDigits(a) THEN TRUE
    ELSE IF AllDigits(b) THEN FALSE
    ELSE SeqLess(a, b)

RECURSIVE PreLess(_, _)
\* Order of two pre-release tags; the empty tag (a release) is the greatest.
PreLess(a, b) ==
    IF a = <<>> /\ b = <<>> THEN FALSE
    ELSE IF a = <<>> THEN FALSE
    ELSE IF b = <<>> THEN TRUE
    ELSE LET RECURSIVE Lex(_, _)
             Lex(x, y) ==
                 IF y = <<>> THEN FALSE
                 ELSE IF x = <<>> THEN TRUE
                 ELSE IF x[1] # y[1] THEN IdentLess(x[1], y[1])
                 ELSE Lex(Tail(x), Tail(y))
         IN  Lex(a, b)

\* Version order that ignores the pre-release tag.
VersionLessCore(a, b) ==
    IF a.major # b.major THEN a.major < b.major
    ELSE IF a.minor # b.minor THEN a.minor < b.minor
    ELSE a.patch < b.patch

\* impl Ord for semver::Version: a < b.
VersionLess(a, b) ==
    IF a.major # b.major THEN a.major < b.major
    ELSE IF a.minor # b.minor THEN a.minor < b.minor
    ELSE IF a.patch # b.patch THEN a.patch < b.patch
    ELSE PreLess(a.pre, b.pre)

RECURSIVE FormatNum(_)
FormatNum(n) ==
    IF n < 10 THEN <<DigitChar(n)>>
    ELSE FormatNum(n \div 10) \o <<DigitChar(n % 10)>>

RECURSIVE Join(_)
Join(ids) ==
    IF ids = <<>> THEN <<>>
    ELSE IF Len(ids) = 1 THEN ids[1]
    ELSE ids[1] \o <<".">> \o Join(Tail(ids))

\* impl Display for semver::Version, as the driver prints it.
VersionFormat(v) ==
    FormatNum(v.major) \o <<".">> \o FormatNum(v.minor) \o <<".">> \o FormatNum(v.patch)
        \o (IF v.pre = <<>> THEN <<>> ELSE <<"-">> \o Join(v.pre))

\* ------------------------------------------------------------- the world
Procs == {"p1", "p2"}
\* The processes that call get in the sequential specification.
Callers == {"p1"}
Toolchains == {"t1", "t2"}
\* The two candidate cache roots: $HOME/.dylint_drivers and the directory
\* named by DYLINT_DRIVER_PATH.
Roots == {"home", "ovr"}

PreTags == {<<>>, <<<<"0">>>>, <<<<"a">>>>}
Versions ==
    {[ok |-> TRUE, major |-> v[1], minor |-> v[2], patch |-> v[3], pre |-> q] :
        v \in {w \in (0..MaxVer) \X (0..MaxVer) \X (0..MaxVer) : w[1] + w[2] + w[3] <= MaxVer},
        q \in PreTags}

\* What a driver built from dylint_driver version s prints for -V.
Banner(s) == <<"d", " ">> \o s \o <<NL>>

\* Outputs of a file in the cache slot that is not a driver of this tool.
OddOutputs ==
    { <<>>,
      <<"d", NL>>,
      <<"d", " ", "d", NL>>,
      <<"d", " ", "1", ".", "0", NL>>,
      <<"d", " ", "0", ".", "0", ".", "0", NL, "d", NL>>,
      <<BadByte, " ", "0", ".", "0", ".", "0", NL>> }

Stdouts == {Banner(VersionFormat(v)) : v \in Versions} \cup OddOutputs

\* Values of CARGO_PKG_VERSION: the versions, and one text that is no version.
OurStrings == {VersionFormat(v) : v \in Versions} \cup {<<"1", ".", "0">>}

\* The content of a file is written in two parts, in order; a part is ""
\* while it is not written, "old" when an earlier run wrote it, and the name
\* of the process whose build it comes from otherwise.
Chunks == <<"head", "tail">>
NoParts == [i \in 1..Len(Chunks) |-> ""]
OldParts == [i \in 1..Len(Chunks) |-> "old"]

\* File contents: k is what the file is, out what it prints when run with
\* -V, success whether that run exits with status zero.
Absent == [k |-> "absent", out |-> <<>>, success |-> FALSE, parts |-> NoParts]
NotExec == [k |-> "notexec", out |-> <<>>, success |-> FALSE, parts |-> OldParts]
Partial == [k |-> "partial", out |-> <<>>, success |-> FALSE, parts |-> NoParts]
Exe(s) == [k |-> "exe", out |-> s, success |-> TRUE, parts |-> OldParts]
\* An executable that prints s and exits with a non-zero status.
ExeFailing(s) == [k |-> "exe", out |-> s, success |-> FALSE, parts |-> OldParts]
InitContents == {NotExec, Partial} \cup {Exe(s) : s \in Stdouts}
\* The files the sequential specification starts from, whatever
\* CARGO_PKG_VERSION is.
SeqContents == [our \in OurStrings |-> InitContents]

\* The slots an earlier run has filled: none, or the one of toolchain t1.
InitSlots == {{}, {"t1"}}

WsFiles == <<"Cargo.toml", "rust-toolchain", "src", "src/main.rs">>
\* What initialize makes of each: write(...) makes a file, create_dir_all a
\* directory.
WsKind(f) == IF f = "src" THEN "dir" ELSE "file"
\* The path of the tempdir of p's build.
Package(p) == <<"tmp", p>>
\* The i-th thing initialize creates: package.join(name).
WsEntry(p, i) == [path |-> Package(p), name |-> WsFiles[i], kind |-> WsKind(WsFiles[i])]

\* Environment variables: unset is <<>>.
EnvVars == {"RUSTFLAGS", "RUSTUP_TOOLCHAIN"}
\* What the caller's environment holds: nothing, or a value for each.
AmbientEnvs == {[v \in EnvVars |-> x] : x \in {<<>>, <<"ambient">>}}
\* sanitize_environment: the variables that would redirect the build are
\* removed from what the child inherits.
Cleared == {"RUSTUP_TOOLCHAIN"}
sanitize_environment(e) == [v \in EnvVars |-> IF v \in Cleared THEN <<>> ELSE e[v]]
\* toolchain_path: the installation directory of toolchain t.
ToolchainRoot(t) == <<"rustup", "toolchains", t>>
\* build: format!(r#"-C link-args=-Wl,-rpath,{}/lib"#, toolchain_path)
rustflags(toolchain_path) == <<"-C", "link-args=-Wl,-rpath,">> \o toolchain_path \o <<"lib">>

\* The environment of the child when RUSTFLAGS is set only if the caller
\* has not set it.
BuildEnvKeepAmbient(ambient, flags) ==
    [sanitize_environment(ambient) EXCEPT
        !["RUSTFLAGS"] = IF ambient["RUSTFLAGS"] = <<>> THEN flags ELSE ambient["RUSTFLAGS"]]

\* build: .sanitize_environment().envs(vec![(env::RUSTFLAGS, rustflags)])
BuildEnv(ambient, flags) == [sanitize_environment(ambient) EXCEPT !["RUSTFLAGS"] = flags]

NoSpawn == [spawned |-> FALSE, ambient |-> [v \in EnvVars |-> <<>>],
            env |-> [v \in EnvVars |-> <<>>], cwd |-> <<>>]
NoWs == [live |-> FALSE, files |-> {}, bin |-> FALSE, copied |-> 0]

NoResult == [k |-> "none", root |-> "", tc |-> "", file |-> "", err |-> ""]
Ok(r, t) == [k |-> "ok", root |-> r, tc |-> t, file |-> "dylint-driver", err |-> ""]
Err(e) == [k |-> "err", root |-> "", tc |-> "", file |-> "", err |-> e]

VARIABLES
    override,   \* "set" iff DYLINT_DRIVER_PATH is set (it then names root "ovr")
    home,       \* dirs::home_dir() is Some
    ours,       \* env!("CARGO_PKG_VERSION")
    dirs,       \* dirs[r]: root r is an existing directory
    readme,     \* readme[r]: r/README.txt exists
    sub,        \* sub[r][t]: r/t is an existing directory
    art,        \* art[r][t]: the content of r/t/dylint-driver
    tmp,        \* tmp[p]: the temporary workspace of p's build
    pc,         \* pc[p]: the next step of p's get call
    tc,         \* tc[p]: the toolchain argument of p's call
    root,       \* root[p]: the resolved cache root
    result,     \* result[p]: what p's last get returned
    log,        \* log[p]: the steps of p's current call and their outcomes
    pre,        \* pre[p]: the file system when p's current call began
    prev,       \* prev[p]: p's previous call, if it returned Ok
    writes,     \* number of times README.txt has been written
    copier,     \* copier[r][t]: the process whose copy to r/t/dylint-driver completed last
    wrote,      \* wrote[p]: what initialize created in p's current call, in order
    spawn       \* spawn[p]: how p's current call spawned cargo build

env == <<override, home, ours>>
fs == <<dirs, readme, sub, art>>
hist == <<copier, wrote, spawn>>
vars ==
    <<override, home, ours, dirs, readme, sub, art, tmp, pc, tc, root, result, log, pre, prev,
      writes, copier, wrote, spawn>>

Snapshot == [dirs |-> dirs, readme |-> readme, sub |-> sub, art |-> art]
NoPrev == [k |-> "none", tc |-> "", builds |-> 0]

\* Number of log entries of step s.
Count(l, s) == Cardinality({i \in 1..Len(l) : l[i].step = s})

\* The states an earlier run of the tool, or the user, may have left, with
\* the slot of t1 holding one of Contents[CARGO_PKG_VERSION].
InitIn(Contents) ==
    /\ ours \in OurStrings
    /\ override \in {"unset", "set"}
    /\ home \in BOOLEAN
    /\ home = FALSE => override = "unset"
    /\ \E active \in Roots, exists \in BOOLEAN, c \in Contents[ours], S \in InitSlots :
        /\ active = IF override = "set" THEN "ovr" ELSE "home"
        /\ ~home => ~exists
        /\ (~exists \/ override = "set") => S = {}
        /\ S = {} => c = NotExec
        /\ dirs = [r \in Roots |-> r = active /\ exists]
        /\ readme = [r \in Roots |-> r = "home" /\ dirs[r]]
        /\ sub = [r \in Roots |-> [t \in Toolchains |-> r = active /\ t \in S]]
        /\ art = [r \in Roots |-> [t \in Toolchains |->
                    IF r = active /\ t \in S THEN c ELSE Absent]]
    /\ tmp = [p \in Procs |-> NoWs]
    /\ pc = [p \in Procs |-> "idle"]
    /\ tc = [p \in Procs |-> "t1"]
    /\ root = [p \in Procs |-> "home"]
    /\ result = [p \in Procs |-> NoResult]
    /\ log = [p \in Procs |-> <<>>]
    /\ pre = [p \in Procs |-> Snapshot]
    /\ prev = [p \in Procs |-> NoPrev]
    /\ writes = 0
    /\ copier = [r \in Roots |-> [t \in Toolchains |-> ""]]
    /\ wrote = [p \in Procs |-> <<>>]
    /\ spawn = [p \in Procs |-> NoSpawn]

Init == InitIn(SeqContents)

\* driver_dir with the toolchain component lost: every call uses one slot.
driver_dir_fixed(p) == [root |-> root[p], tc |-> "t1"]

\* get: driver_dir = dylint_drivers.join(&toolchain); the artifact is
\* driver_dir.join("dylint-driver").
driver_dir(p) == [root |-> root[p], tc |-> tc[p]]

\* The steps that access driver_dir or the file in it.
SlotSteps == {"subdir", "exists", "query", "copy_open", "copy_data"}

\* A step of p's call completed: s with outcome o ("ok", "fail", "warn"),
\* on the toolchain directory `slot` ("" when it touches none).
Logged(p, s, o) ==
    log' = [log EXCEPT ![p] = Append(@,
        [step |-> s, out |-> o, slot |-> IF s \in SlotSteps THEN driver_dir(p).tc ELSE ""])]

\* The `?` operator returning without the TempDir being dropped.
FailLeak(p, s, e) ==
    /\ pc' = [pc EXCEPT ![p] = "done"]
    /\ result' = [result EXCEPT ![p] = Err(e)]
    /\ tmp' = tmp
    /\ Logged(p, s, "fail")

\* The `?` operator: the call returns the error e. The tempdir of build, if
\* any, is dropped on the way out.
Fail(p, s, e) ==
    /\ pc' = [pc EXCEPT ![p] = "done"]
    /\ result' = [result EXCEPT ![p] = Err(e)]
    /\ tmp' = [tmp EXCEPT ![p] = NoWs]
    /\ Logged(p, s, "fail")

\* The next statement of get/build is reached.
Goto(p, s, next) ==
    /\ pc' = [pc EXCEPT ![p] = next]
    /\ Logged(p, s, "ok")
    /\ UNCHANGED result

\* get returns Ok(driver).
Return(p, s, o) ==
    /\ pc' = [pc EXCEPT ![p] = "done"]
    /\ result' = [result EXCEPT ![p] = Ok(driver_dir(p).root, driver_dir(p).tc)]
    /\ Logged(p, s, o)

\* A caller invokes get(opts, t).
CallGet(p, t) ==
    /\ pc[p] \in {"idle", "done"}
    /\ pc' = [pc EXCEPT ![p] = "resolve"]
    /\ tc' = [tc EXCEPT ![p] = t]
    /\ result' = [result EXCEPT ![p] = NoResult]
    /\ log' = [log EXCEPT ![p] = <<>>]
    /\ pre' = [pre EXCEPT ![p] = Snapshot]
    /\ prev' = [prev EXCEPT ![p] =
            IF pc[p] = "done" /\ result[p].k = "ok"
            THEN [k |-> "ok", tc |-> tc[p], builds |-> Count(log[p], "tempdir")]
            ELSE NoPrev]
    /\ wrote' = [wrote EXCEPT ![p] = <<>>]
    /\ spawn' = [spawn EXCEPT ![p] = NoSpawn]
    /\ UNCHANGED <<env, fs, tmp, root, writes, copier>>

\* dylint_drivers falling back to the default directory when the override
\* names no directory.
DylintDriversFallback(p) ==
    /\ pc[p] = "resolve"
    /\ IF override = "set" /\ dirs["ovr"]
       THEN root' = [root EXCEPT ![p] = "ovr"] /\ Goto(p, "resolve", "subdir") /\ UNCHANGED tmp
       ELSE IF ~home
            THEN Fail(p, "resolve", "home") /\ UNCHANGED root
            ELSE /\ root' = [root EXCEPT ![p] = "home"]
                 /\ Goto(p, "resolve", IF dirs["home"] THEN "subdir" ELSE "mkroot")
                 /\ UNCHANGED tmp
    /\ UNCHANGED <<env, fs, tc, pre, prev, writes, hist>>

\* dylint_drivers without the is_dir test of the default directory.
DylintDriversAlwaysCreate(p) ==
    /\ pc[p] = "resolve"
    /\ IF override = "set"
       THEN IF dirs["ovr"]
            THEN root' = [root EXCEPT ![p] = "ovr"] /\ Goto(p, "resolve", "subdir") /\ UNCHANGED tmp
            ELSE Fail(p, "resolve", "ensure") /\ UNCHANGED root
       ELSE IF ~home
            THEN Fail(p, "resolve", "home") /\ UNCHANGED root
            ELSE /\ root' = [root EXCEPT ![p] = "home"]
                 /\ Goto(p, "resolve", "mkroot")
                 /\ UNCHANGED tmp
    /\ UNCHANGED <<env, fs, tc, pre, prev, writes, hist>>

\* dylint_drivers, up to the test of the default directory.
DylintDrivers(p) ==
    /\ pc[p] = "resolve"
    /\ IF override = "set"
       THEN IF dirs["ovr"]
            THEN root' = [root EXCEPT ![p] = "ovr"] /\ Goto(p, "resolve", "subdir") /\ UNCHANGED tmp
            ELSE Fail(p, "resolve", "ensure") /\ UNCHANGED root
       ELSE IF ~home
            THEN Fail(p, "resolve", "home") /\ UNCHANGED root
            ELSE /\ root' = [root EXCEPT ![p] = "home"]
                 /\ Goto(p, "resolve", IF dirs["home"] THEN "subdir" ELSE "mkroot")
                 /\ UNCHANGED tmp
    /\ UNCHANGED <<env, fs, tc, pre, prev, writes, hist>>

\* dylint_drivers: create_dir_all of the default directory.
CreateRoot(p) ==
    /\ pc[p] = "mkroot"
    /\ \E ok \in BOOLEAN :
        IF ok
        THEN /\ dirs' = [dirs EXCEPT !["home"] = TRUE]
             /\ Goto(p, "mkroot", "readme")
             /\ UNCHANGED tmp
        ELSE Fail(p, "mkroot", "create_dir_all") /\ UNCHANGED dirs
    /\ UNCHANGED <<env, readme, sub, art, tc, root, pre, prev, writes, hist>>

\* dylint_drivers: write of README.txt.
WriteReadme(p) ==
    /\ pc[p] = "readme"
    /\ \E ok \in BOOLEAN :
        IF ok
        THEN /\ readme' = [readme EXCEPT !["home"] = TRUE]
             /\ writes' = writes + 1
             /\ Goto(p, "readme", "subdir")
             /\ UNCHANGED tmp
        ELSE Fail(p, "readme", "write") /\ UNCHANGED <<readme, writes>>
    /\ UNCHANGED <<env, dirs, sub, art, tc, root, pre, prev, hist>>

\* get: the per-toolchain directory.
CreateDriverDir(p) ==
    /\ pc[p] = "subdir"
    /\ IF sub[driver_dir(p).root][driver_dir(p).tc]
       THEN Goto(p, "subdir", "exists") /\ UNCHANGED <<tmp, dirs, sub>>
       ELSE \E ok \in BOOLEAN :
            IF ok
            THEN /\ sub' = [sub EXCEPT ![driver_dir(p).root][driver_dir(p).tc] = TRUE]
                 /\ dirs' = [dirs EXCEPT ![driver_dir(p).root] = TRUE]
                 /\ Goto(p, "subdir", "exists")
                 /\ UNCHANGED tmp
            ELSE Fail(p, "subdir", "create_dir_all") /\ UNCHANGED <<dirs, sub>>
    /\ UNCHANGED <<env, readme, art, tc, root, pre, prev, writes, hist>>

\* get building whether or not the driver exists.
DriverExistsAlwaysBuild(p) ==
    /\ pc[p] = "exists"
    /\ Goto(p, "exists", "tempdir")
    /\ UNCHANGED <<env, fs, tmp, tc, root, pre, prev, writes, hist>>

\* get: !driver.exists()
DriverExists(p) ==
    /\ pc[p] = "exists"
    /\ Goto(p, "exists", IF art[driver_dir(p).root][driver_dir(p).tc].k = "absent" THEN "tempdir" ELSE "query")
    /\ UNCHANGED <<env, fs, tmp, tc, root, pre, prev, writes, hist>>

\* What running the file with content c and the argument -V gives: the
\* spawn fails, or the process writes stdout and exits. A partially copied
\* binary may do either; so may one whose parts come from two builds, or
\* it may run as a driver does.
RunOutcomes(c) ==
    CASE c.k = "exe" -> {[spawned |-> TRUE, stdout |-> c.out, success |-> c.success]}
      [] c.k = "partial" -> {[spawned |-> FALSE, stdout |-> <<>>, success |-> FALSE],
                             [spawned |-> TRUE, stdout |-> <<>>, success |-> FALSE]}
      [] c.k = "mixed" -> {[spawned |-> FALSE, stdout |-> <<>>, success |-> FALSE],
                           [spawned |-> TRUE, stdout |-> <<>>, success |-> FALSE],
                           [spawned |-> TRUE, stdout |-> c.out, success |-> TRUE]}
      [] OTHER -> {[spawned |-> FALSE, stdout |-> <<>>, success |-> FALSE]}

\* is_outdated with the comparison reversed.
is_outdated_gt(run, our) ==
    IF ~run.spawned THEN "err_output"
    ELSE IF ~FromUtf8Ok(run.stdout) THEN "err_utf8"
    ELSE LET theirs == RSplitOnce(TrimEnd(run.stdout))
         IN  IF ~theirs.some THEN "err_version"
             ELSE LET their_version == VersionParse(theirs.tail)
                      our_version == VersionParse(our)
                  IN  IF ~their_version.ok THEN "warn"
                      ELSE IF ~our_version.ok THEN "err_self"
                      ELSE IF VersionLess(our_version, their_version) THEN "stale"
                      ELSE "fresh"

\* is_outdated propagating the parse error of the artifact's version.
is_outdated_strict(run, our) ==
    IF ~run.spawned THEN "err_output"
    ELSE IF ~FromUtf8Ok(run.stdout) THEN "err_utf8"
    ELSE LET theirs == RSplitOnce(TrimEnd(run.stdout))
         IN  IF ~theirs.some THEN "err_version"
             ELSE LET their_version == VersionParse(theirs.tail)
                      our_version == VersionParse(our)
                  IN  IF ~their_version.ok THEN "err_version"
                      ELSE IF ~our_version.ok THEN "err_self"
                      ELSE IF VersionLess(their_version, our_version) THEN "stale"
                      ELSE "fresh"

\* is_outdated answering "outdated" for an artifact of our own version too.
is_outdated_le(run, our) ==
    IF ~run.spawned THEN "err_output"
    ELSE IF ~FromUtf8Ok(run.stdout) THEN "err_utf8"
    ELSE LET theirs == RSplitOnce(TrimEnd(run.stdout))
         IN  IF ~theirs.some THEN "err_version"
             ELSE LET their_version == VersionParse(theirs.tail)
                      our_version == VersionParse(our)
                  IN  IF ~their_version.ok THEN "warn"
                      ELSE IF ~our_version.ok THEN "err_self"
                      ELSE IF ~VersionLess(our_version, their_version) THEN "stale"
                      ELSE "fresh"

\* is_outdated, on the outcome of the -V run and CARGO_PKG_VERSION.
is_outdated(run, our) ==
    IF ~run.spawned THEN "err_output"
    ELSE IF ~FromUtf8Ok(run.stdout) THEN "err_utf8"
    ELSE LET theirs == RSplitOnce(TrimEnd(run.stdout))
         IN  IF ~theirs.some THEN "err_version"
             ELSE LET their_version == VersionParse(theirs.tail)
                      our_version == VersionParse(our)
                  IN  IF ~their_version.ok THEN "warn"
                      ELSE IF ~our_version.ok THEN "err_self"
                      ELSE IF VersionLess(their_version, our_version) THEN "stale"
                      ELSE "fresh"

\* get treating every error of is_outdated as "outdated".
QueryLenient(p) ==
    /\ pc[p] = "query"
    /\ \E run \in RunOutcomes(art[driver_dir(p).root][driver_dir(p).tc]) :
        LET r == is_outdated(run, ours)
        IN  CASE r = "fresh" -> Return(p, "query", "ok") /\ UNCHANGED tmp
              [] r = "stale" -> Goto(p, "query", "tempdir") /\ UNCHANGED tmp
              [] r = "warn" ->
                    /\ pc' = [pc EXCEPT ![p] = "tempdir"]
                    /\ Logged(p, "query", "warn")
                    /\ UNCHANGED <<result, tmp>>
              [] OTHER ->
                    /\ pc' = [pc EXCEPT ![p] = "tempdir"]
                    /\ Logged(p, "query", "fail")
                    /\ UNCHANGED <<result, tmp>>
    /\ UNCHANGED <<env, fs, tc, root, pre, prev, writes, hist>>

\* get: is_outdated(opts, toolchain, &driver)?
Query(p) ==
    /\ pc[p] = "query"
    /\ \E run \in RunOutcomes(art[driver_dir(p).root][driver_dir(p).tc]) :
        LET r == is_outdated(run, ours)
        IN  CASE r = "fresh" -> Return(p, "query", "ok") /\ UNCHANGED tmp
              [] r = "stale" -> Goto(p, "query", "tempdir") /\ UNCHANGED tmp
              [] r = "warn" ->
                    /\ pc' = [pc EXCEPT ![p] = "tempdir"]
                    /\ Logged(p, "query", "warn")
                    /\ UNCHANGED <<result, tmp>>
              [] OTHER -> Fail(p, "query", r)
    /\ UNCHANGED <<env, fs, tc, root, pre, prev, writes, hist>>

\* build: tempdir()
TempDir(p) ==
    /\ pc[p] = "tempdir"
    /\ \E ok \in BOOLEAN :
        IF ok
        THEN /\ tmp' = [tmp EXCEPT ![p] = [live |-> TRUE, files |-> {}, bin |-> FALSE, copied |-> 0]]
             /\ Goto(p, "tempdir", "initialize")
        ELSE Fail(p, "tempdir", "tempdir")
    /\ UNCHANGED <<env, fs, tc, root, pre, prev, writes, hist>>

\* initialize going on to the next file when one cannot be written: the
\* files of S are written.
initializeSkipping(p) ==
    /\ pc[p] = "initialize"
    /\ \E S \in SUBSET (1..Len(WsFiles)) :
        /\ wrote' = [wrote EXCEPT ![p] =
                SelectSeq([i \in 1..Len(WsFiles) |-> WsEntry(p, i)],
                          LAMBDA e : \E i \in S : e = WsEntry(p, i))]
        /\ IF S = 1..Len(WsFiles)
           THEN /\ tmp' = [tmp EXCEPT ![p].files = {WsFiles[i] : i \in S}]
                /\ Goto(p, "initialize", "metadata")
           ELSE Fail(p, "initialize", "write")
    /\ UNCHANGED <<env, fs, tc, root, pre, prev, writes, copier, spawn>>

\* build: initialize(toolchain, package)?; the first n of its four writes
\* succeed.
initialize(p) ==
    /\ pc[p] = "initialize"
    /\ \E n \in 0..Len(WsFiles) :
        /\ wrote' = [wrote EXCEPT ![p] = [i \in 1..n |-> WsEntry(p, i)]]
        /\ IF n = Len(WsFiles)
           THEN /\ tmp' = [tmp EXCEPT ![p].files = {WsFiles[i] : i \in 1..n}]
                /\ Goto(p, "initialize", "metadata")
           ELSE Fail(p, "initialize", "write")
    /\ UNCHANGED <<env, fs, tc, root, pre, prev, writes, copier, spawn>>

\* The generated manifest pins dylint_driver to "=CARGO_PKG_VERSION"; cargo
\* rejects a manifest whose requirement is no version.
ManifestValid == VersionParse(ours).ok

\* build: MetadataCommand::new().current_dir(package).no_deps().exec()?
Metadata(p) ==
    /\ pc[p] = "metadata"
    /\ \E ok \in BOOLEAN :
        IF ok /\ ManifestValid
        THEN Goto(p, "metadata", "toolchain_path") /\ UNCHANGED tmp
        ELSE Fail(p, "metadata", "metadata")
    /\ UNCHANGED <<env, fs, tc, root, pre, prev, writes, hist>>

\* build going on to cargo build when toolchain_path has failed.
ToolchainPathLenient(p) ==
    /\ pc[p] = "toolchain_path"
    /\ \E ok \in BOOLEAN :
        /\ pc' = [pc EXCEPT ![p] = "cargo_build"]
        /\ Logged(p, "toolchain_path", IF ok THEN "ok" ELSE "fail")
        /\ UNCHANGED <<result, tmp>>
    /\ UNCHANGED <<env, fs, tc, root, pre, prev, writes, hist>>

\* build: toolchain_path(package)?; it fails when the toolchain is not
\* installed.
ToolchainPath(p) ==
    /\ pc[p] = "toolchain_path"
    /\ \E ok \in BOOLEAN :
        IF ok
        THEN Goto(p, "toolchain_path", "cargo_build") /\ UNCHANGED tmp
        ELSE Fail(p, "toolchain_path", "toolchain_path")
    /\ UNCHANGED <<env, fs, tc, root, pre, prev, writes, hist>>

\* build going on to the copy whatever the exit status of cargo build is.
CargoBuildIgnoreStatus(p) ==
    /\ pc[p] = "cargo_build"
    /\ \E ambient \in AmbientEnvs :
        spawn' = [spawn EXCEPT ![p] =
            [spawned |-> TRUE, ambient |-> ambient,
             env |-> BuildEnv(ambient, rustflags(ToolchainRoot(tc[p]))),
             cwd |-> Package(p)]]
    /\ \E ok \in BOOLEAN :
        /\ tmp' = [tmp EXCEPT ![p].bin = ok]
        /\ pc' = [pc EXCEPT ![p] = "copy_open"]
        /\ Logged(p, "cargo_build", IF ok THEN "ok" ELSE "fail")
        /\ UNCHANGED result
    /\ UNCHANGED <<env, fs, tc, root, pre, prev, writes, copier, wrote>>

\* build: the cargo build subprocess and command.success()?
CargoBuild(p) ==
    /\ pc[p] = "cargo_build"
    /\ \E ambient \in AmbientEnvs :
        spawn' = [spawn EXCEPT ![p] =
            [spawned |-> TRUE, ambient |-> ambient,
             env |-> BuildEnv(ambient, rustflags(ToolchainRoot(tc[p]))),
             cwd |-> Package(p)]]
    /\ \E ok \in BOOLEAN :
        IF ok
        THEN /\ tmp' = [tmp EXCEPT ![p].bin = TRUE]
             /\ Goto(p, "cargo_build", "copy_open")
        ELSE Fail(p, "cargo_build", "build")
    /\ UNCHANGED <<env, fs, tc, root, pre, prev, writes, copier, wrote>>

\* The binary cargo leaves in target/debug: a driver of the pinned version.
BuiltDriver == Exe(Banner(ours))

\* copy removing the destination before it creates it.
CopyOpenUnlink(p) ==
    /\ pc[p] = "copy_open"
    /\ \E ok \in BOOLEAN :
        IF ok /\ tmp[p].bin
        THEN /\ art' = [art EXCEPT ![driver_dir(p).root][driver_dir(p).tc] = Absent]
             /\ Goto(p, "copy_open", "copy_data")
             /\ UNCHANGED tmp
        ELSE Fail(p, "copy_open", "copy") /\ UNCHANGED art
    /\ UNCHANGED <<env, dirs, readme, sub, tc, root, pre, prev, writes, hist>>

\* build: copy(&binary, driver), first half: both files are opened and the
\* destination is truncated. The source is the binary cargo build left.
CopyOpen(p) ==
    /\ pc[p] = "copy_open"
    /\ \E ok \in BOOLEAN :
        IF ok /\ tmp[p].bin
        THEN /\ art' = [art EXCEPT ![driver_dir(p).root][driver_dir(p).tc] = Partial]
             /\ Goto(p, "copy_open", "copy_data")
             /\ UNCHANGED tmp
        ELSE Fail(p, "copy_open", "copy") /\ UNCHANGED art
    /\ UNCHANGED <<env, dirs, readme, sub, tc, root, pre, prev, writes, hist>>

\* The destination after part i of the binary built by b is written to
\* it: partial while a part is missing, the built driver when all parts
\* come from one build, a mixture otherwise.
WriteChunk(c, i, b) ==
    LET ps == [c.parts EXCEPT ![i] = b]
    IN  IF \E j \in 1..Len(Chunks) : ps[j] = ""
        THEN [Partial EXCEPT !.parts = ps]
        ELSE IF \A j \in 1..Len(Chunks) : ps[j] = ps[1]
        THEN [BuiltDriver EXCEPT !.parts = ps]
        ELSE [BuiltDriver EXCEPT !.k = "mixed", !.parts = ps]

\* copy reporting success without having written the bytes.
CopyDataNoWrite(p) ==
    /\ pc[p] = "copy_data"
    /\ \E ok \in BOOLEAN :
        IF ok
        THEN IF tmp[p].copied + 1 = Len(Chunks)
             THEN /\ tmp' = [tmp EXCEPT ![p] = NoWs]
                  /\ copier' = [copier EXCEPT ![driver_dir(p).root][driver_dir(p).tc] = p]
                  /\ Return(p, "copy_data", "ok")
             ELSE /\ tmp' = [tmp EXCEPT ![p].copied = @ + 1]
                  /\ Goto(p, "copy_data", "copy_data")
                  /\ UNCHANGED copier
        ELSE Fail(p, "copy_data", "copy") /\ UNCHANGED copier
    /\ UNCHANGED <<env, fs, tc, root, pre, prev, writes, wrote, spawn>>

\* get testing the driver again after build has returned.
CopyDataRecheck(p) ==
    /\ pc[p] = "copy_data"
    /\ \E ok \in BOOLEAN :
        IF ok
        THEN /\ art' = [art EXCEPT ![driver_dir(p).root][driver_dir(p).tc] =
                        WriteChunk(@, tmp[p].copied + 1, p)]
             /\ IF tmp[p].copied + 1 = Len(Chunks)
                THEN /\ tmp' = [tmp EXCEPT ![p] = NoWs]
                     /\ copier' = [copier EXCEPT ![driver_dir(p).root][driver_dir(p).tc] = p]
                     /\ Goto(p, "copy_data", "query")
                ELSE /\ tmp' = [tmp EXCEPT ![p].copied = @ + 1]
                     /\ Goto(p, "copy_data", "copy_data")
                     /\ UNCHANGED copier
        ELSE Fail(p, "copy_data", "copy") /\ UNCHANGED <<art, copier>>
    /\ UNCHANGED <<env, dirs, readme, sub, tc, root, pre, prev, writes, wrote, spawn>>

\* build: copy(&binary, driver), second half: the bytes are written, one
\* part at a step; after the last part build returns, the tempdir is
\* dropped, and get returns Ok(driver).
CopyData(p) ==
    /\ pc[p] = "copy_data"
    /\ \E ok \in BOOLEAN :
        IF ok
        THEN /\ art' = [art EXCEPT ![driver_dir(p).root][driver_dir(p).tc] =
                        WriteChunk(@, tmp[p].copied + 1, p)]
             /\ IF tmp[p].copied + 1 = Len(Chunks)
                THEN /\ tmp' = [tmp EXCEPT ![p] = NoWs]
                     /\ copier' = [copier EXCEPT ![driver_dir(p).root][driver_dir(p).tc] = p]
                     /\ Return(p, "copy_data", "ok")
                ELSE /\ tmp' = [tmp EXCEPT ![p].copied = @ + 1]
                     /\ Goto(p, "copy_data", "copy_data")
                     /\ UNCHANGED copier
        ELSE Fail(p, "copy_data", "copy") /\ UNCHANGED <<art, copier>>
    /\ UNCHANGED <<env, dirs, readme, sub, tc, root, pre, prev, writes, wrote, spawn>>

Step(p) ==
    \/ \E t \in Toolchains : CallGet(p, t)
    \/ DylintDrivers(p)
    \/ CreateRoot(p)
    \/ WriteReadme(p)
    \/ CreateDriverDir(p)
    \/ DriverExists(p)
    \/ Query(p)
    \/ TempDir(p)
    \/ initialize(p)
    \/ Metadata(p)
    \/ ToolchainPath(p)
    \/ CargoBuild(p)
    \/ CopyOpen(p)
    \/ CopyData(p)

Next == \E p \in Callers : Step(p)

Spec == Init /\ [][Next]_vars

\* Two processes, each calling get once, on the default cache root; the
\* slot of t1 is empty, or holds a file that cannot be executed, or a
\* driver of version 0.0.0 or of version CARGO_PKG_VERSION, or a program
\* that prints one of these versions and exits with a non-zero status.
ConcContents ==
    [our \in OurStrings |->
        {NotExec,
         Exe(Banner(<<"0", ".", "0", ".", "0">>)), Exe(Banner(our)),
         ExeFailing(Banner(<<"0", ".", "0", ".", "0">>)), ExeFailing(Banner(our))}]
ConcOurs == {VersionFormat(v) : v \in {w \in Versions : w.pre = <<>> /\ w.major = MaxVer}}

InitConc ==
    /\ InitIn(ConcContents)
    /\ override = "unset"
    /\ home
    /\ ours \in ConcOurs

NextConc == \E p \in Procs : pc[p] # "done" /\ Step(p)

SpecConc == InitConc /\ [][NextConc]_vars

\* One get call of one process that goes on running: once it has called
\* get the process is not suspended for ever, and the subprocess it waits
\* for (the -V run, cargo metadata, rustup, cargo build) terminates.
\* Running is every step but the version query; QueryEnds is the version
\* query seen on pc alone: is_outdated returns, and get is then in build or
\* has returned.
Running(p) == pc[p] \notin {"idle", "done", "query"} /\ Step(p)
QueryEnds(p) == pc[p] = "query" /\ \E next \in {"tempdir", "done"} : pc' = [pc EXCEPT ![p] = next]
NextCall == \E p \in Callers : pc[p] # "done" /\ Step(p)
SpecCall ==
    /\ InitConc
    /\ [][NextCall]_vars
    /\ \A p \in Callers : WF_vars(Running(p)) /\ WF_pc(QueryEnds(p))

\* ------------------------------------------------------- claim vocabulary
\* <CacheRoot>: the directory dylint_drivers resolves to.
CacheRoot == IF override = "set" THEN "ovr" ELSE "home"
Done(p) == pc[p] = "done"
Succeeded(p) == Done(p) /\ result[p].k = "ok"
\* The content of <CacheRoot>/<toolchain>/dylint-driver when p's call began,
\* and now.
SlotBefore(p) == pre[p].art[CacheRoot][tc[p]]
SlotNow(p) == art[CacheRoot][tc[p]]
\* Invocations of build, of the version query, and of the build tools
\* (cargo metadata, rustup, cargo build) in p's current call.
Builds(p) == Count(log[p], "tempdir")
Queries(p) == Count(log[p], "query")
ToolSpawns(p) ==
    Count(log[p], "metadata") + Count(log[p], "toolchain_path") + Count(log[p], "cargo_build")
Subprocesses(p) == Queries(p) + ToolSpawns(p)
\* The last space-delimited token of what the file prints for -V.
Token(c) ==
    IF c.k = "exe" /\ FromUtf8Ok(c.out) THEN RSplitOnce(TrimEnd(c.out))
    ELSE [some |-> FALSE, tail |-> <<>>]
\* The version a file in the slot reports for -V, if it reports one.
Reported(c) == IF Token(c).some THEN VersionParse(Token(c).tail) ELSE NoVersion
\* The file reports a version that is not older than CARGO_PKG_VERSION.
Current(c) ==
    /\ Reported(c).ok
    /\ VersionParse(ours).ok
    /\ ~VersionLess(Reported(c), VersionParse(ours))
\* The statements of build that run while its TempDir is in scope.
BuildSteps == {"initialize", "metadata", "toolchain_path", "cargo_build", "copy_open", "copy_data"}
LogHas(p, s, o) == \E i \in 1..Len(log[p]) : log[p][i].step = s /\ log[p][i].out = o

\* Precedence of semantic versions (semver.org, item 11), stated on parsed
\* versions: the first differing core number decides; with equal cores a
\* pre-release precedes the release, and pre-release tags compare
\* identifier by identifier.
IdentPrecedes(u, v) ==
    IF AllDigits(u) /\ AllDigits(v) THEN NumVal(u) < NumVal(v)
    ELSE IF AllDigits(u) # AllDigits(v) THEN AllDigits(u)
    ELSE \E k \in 1..Len(v) :
            /\ \A j \in 1..(k - 1) : j <= Len(u) /\ u[j] = v[j]
            /\ (k > Len(u) \/ (k <= Len(u) /\ Ord(u[k]) < Ord(v[k])))
PrePrecedes(x, y) ==
    /\ x # <<>>
    /\ \/ y = <<>>
       \/ \E i \in 1..Len(y) :
            /\ \A j \in 1..(i - 1) : j <= Len(x) /\ x[j] = y[j]
            /\ (i > Len(x) \/ (i <= Len(x) /\ IdentPrecedes(x[i], y[i])))
SemverPrecedes(a, b) ==
    \/ a.major < b.major
    \/ a.major = b.major /\ a.minor < b.minor
    \/ a.major = b.major /\ a.minor = b.minor /\ a.patch < b.patch
    \/ a.major = b.major /\ a.minor = b.minor /\ a.patch = b.patch /\ PrePrecedes(a.pre, b.pre)

\* ------------------------------------------------------------------ claims

\* C1: a successful get(toolchain) whose cache slot did not exist before the
\* call returns <CacheRoot>/<toolchain>/dylint-driver, and on return that
\* file exists, is executable and reports a version >= CARGO_PKG_VERSION.
C1_FreshSlotIsBuilt ==
    \A p \in Procs :
        (Succeeded(p) /\ SlotBefore(p).k = "absent") =>
            /\ result[p] = Ok(CacheRoot, tc[p])
            /\ SlotNow(p).k = "exe"
            /\ Current(SlotNow(p))

C1_Witness ==
    \E p \in Procs : Succeeded(p) /\ SlotBefore(p).k = "absent" /\ Builds(p) = 1

\* C2 as stated: two successive successful get calls for one toolchain
\* perform exactly one build in total and the second invokes no subprocess.
C2_ExactlyOneBuildNoSubprocess ==
    \A p \in Procs :
        (Succeeded(p) /\ prev[p].k = "ok" /\ prev[p].tc = tc[p]) =>
            /\ prev[p].builds + Builds(p) = 1
            /\ Subprocesses(p) = 0

\* C2 amended: two successive successful get calls for one toolchain perform
\* at most one build in total; the second performs no build and spawns no
\* build tool, and its one subprocess is the -V query of the cached driver.
C2_SecondCallIsHit ==
    \A p \in Procs :
        (Succeeded(p) /\ prev[p].k = "ok" /\ prev[p].tc = tc[p]) =>
            /\ prev[p].builds + Builds(p) <= 1
            /\ Builds(p) = 0
            /\ ToolSpawns(p) = 0
            /\ Queries(p) = 1
            /\ SlotNow(p) = SlotBefore(p)

C2_Witness ==
    \E p \in Procs :
        /\ Succeeded(p) /\ prev[p].k = "ok" /\ prev[p].tc = tc[p]
        /\ prev[p].builds = 1 /\ Queries(p) = 1

\* C3: when the cached artifact reports a version strictly less than
\* CARGO_PKG_VERSION, get invokes build exactly once, and after a successful
\* return the artifact in the slot reports a version >= CARGO_PKG_VERSION.
C3_OldArtifactIsRebuilt ==
    \A p \in Procs :
        (/\ Done(p)
         /\ Reported(SlotBefore(p)).ok
         /\ VersionParse(ours).ok
         /\ SemverPrecedes(Reported(SlotBefore(p)), VersionParse(ours))) =>
            /\ Builds(p) = 1
            /\ Queries(p) = 1
            /\ (result[p].k = "ok" => Current(SlotNow(p)))

C3_Witness ==
    \E p \in Procs :
        /\ Succeeded(p)
        /\ Reported(SlotBefore(p)).ok
        /\ VersionParse(ours).ok
        /\ SemverPrecedes(Reported(SlotBefore(p)), VersionParse(ours))
        /\ SlotNow(p) # SlotBefore(p)

\* A file that is no valid executable, or a program whose -V output yields
\* no parseable version.
Unusable(c) == c.k = "notexec" \/ (c.k = "exe" /\ ~Reported(c).ok)

\* C4 as stated: when the file in the slot is not a valid executable or
\* prints version output that cannot be parsed, get does not fail because
\* of it; it treats the artifact as stale and invokes build.
C4_UnusableArtifactIsRebuilt ==
    \A p \in Procs :
        (Done(p) /\ Unusable(SlotBefore(p))) =>
            /\ ~LogHas(p, "query", "fail")
            /\ Builds(p) = 1

\* C5: for parseable versions a (artifact) and r (CARGO_PKG_VERSION), get
\* rebuilds exactly when a precedes r; when a equals r or is newer, the
\* check answers "not stale", get builds nothing and returns the path.
C5_StaleIffStrictlyOlder ==
    \A p \in Procs :
        (Done(p) /\ Reported(SlotBefore(p)).ok /\ VersionParse(ours).ok) =>
            LET a == Reported(SlotBefore(p))
                r == VersionParse(ours)
            IN  /\ a \in Versions /\ r \in Versions
                /\ IF SemverPrecedes(a, r)
                   THEN Builds(p) = 1 /\ LogHas(p, "query", "ok")
                   ELSE /\ Builds(p) = 0
                        /\ result[p] = Ok(CacheRoot, tc[p])
                        /\ SlotNow(p) = SlotBefore(p)

C5_Witness ==
    \E p \in Procs :
        /\ Done(p) /\ Reported(SlotBefore(p)).ok /\ VersionParse(ours).ok
        /\ SemverPrecedes(VersionParse(ours), Reported(SlotBefore(p)))
        /\ Reported(SlotBefore(p)).pre # <<>> /\ VersionParse(ours).pre # <<>>
        /\ Builds(p) = 0

\* C6: an artifact version token that does not parse is not fatal: a
\* warning is given, the answer is "stale" and get goes on to build. A
\* CARGO_PKG_VERSION that does not parse is fatal: get returns the error
\* and build is not invoked.
C6_ParseFailures ==
    \A p \in Procs :
        /\ (Done(p) /\ Token(SlotBefore(p)).some /\ ~Reported(SlotBefore(p)).ok) =>
                /\ LogHas(p, "query", "warn")
                /\ Builds(p) = 1
                /\ result[p].err \notin {"err_output", "err_utf8", "err_version", "err_self"}
        /\ (Done(p) /\ Reported(SlotBefore(p)).ok /\ ~VersionParse(ours).ok) =>
                /\ result[p] = Err("err_self")
                /\ Builds(p) = 0
                /\ SlotNow(p) = SlotBefore(p)

C6_Witness ==
    \E p \in Procs :
        /\ Done(p) /\ Reported(SlotBefore(p)).ok /\ ~VersionParse(ours).ok
        /\ result[p] = Err("err_self")

\* The errors get returns when the step fails.
ErrorsOf(s) ==
    CASE s = "resolve" -> {"ensure", "home"}
      [] s = "mkroot" -> {"create_dir_all"}
      [] s = "readme" -> {"write"}
      [] s = "subdir" -> {"create_dir_all"}
      [] s = "query" -> {"err_output", "err_utf8", "err_version", "err_self"}
      [] s = "tempdir" -> {"tempdir"}
      [] s = "initialize" -> {"write"}
      [] s = "metadata" -> {"metadata"}
      [] s = "toolchain_path" -> {"toolchain_path"}
      [] s = "cargo_build" -> {"build"}
      [] s = "copy_open" -> {"copy"}
      [] s = "copy_data" -> {"copy"}
      [] OTHER -> {}

\* C7: a failed step of get is the last step of the call and get returns
\* its error; the one failure after which get goes on is the artifact
\* version token that does not parse. In particular a slot file that cannot
\* be executed, or whose output is not UTF-8 or has no space, fails the call
\* before any build.
C7_FailuresPropagate ==
    \A p \in Procs :
        /\ \A i \in 1..Len(log[p]) :
            /\ log[p][i].out = "fail" =>
                    /\ i = Len(log[p])
                    /\ Done(p)
                    /\ result[p].k = "err"
                    /\ result[p].err \in ErrorsOf(log[p][i].step)
            /\ log[p][i].out = "warn" =>
                    /\ log[p][i].step = "query"
                    /\ Token(SlotBefore(p)).some /\ ~Reported(SlotBefore(p)).ok
        /\ (Done(p) /\ result[p].k = "err") => log[p][Len(log[p])].out = "fail"
        /\ (Done(p) /\ SlotBefore(p).k \in {"notexec", "exe"} /\ ~Token(SlotBefore(p)).some) =>
                /\ result[p].k = "err"
                /\ result[p].err \in {"err_output", "err_utf8", "err_version"}
                /\ Builds(p) = 0

C7_Witness ==
    \E p \in Procs :
        /\ Done(p) /\ SlotBefore(p).k = "notexec"
        /\ result[p] = Err("err_output")
        /\ Builds(p) = 0

\* C8: with DYLINT_DRIVER_PATH set to a path that is no directory, get fails
\* with the error of the ensure! and nothing is created: not the override
\* path, not the default root or its README.txt, no toolchain directory, no
\* artifact, no temporary workspace.
C8_BadOverrideCreatesNothing ==
    \A p \in Procs :
        (pc[p] # "idle" /\ override = "set" /\ ~pre[p].dirs["ovr"]) =>
            /\ Snapshot = pre[p]
            /\ \A r \in Roots : ~dirs[r] /\ ~readme[r] /\ \A t \in Toolchains : ~sub[r][t]
            /\ ~tmp[p].live
            /\ pc[p] \in {"resolve", "done"}
            /\ Done(p) => result[p] = Err("ensure")

C8_Witness ==
    \E p \in Procs :
        /\ Done(p) /\ override = "set" /\ ~pre[p].dirs["ovr"]
        /\ result[p] = Err("ensure")

\* C9: with no override, every resolution that succeeds gives the same
\* path, README.txt is written at most once over all calls, and a call
\* that finds the directory neither writes README.txt nor fails in
\* dylint_drivers.
C9_ResolveIdempotent ==
    override = "unset" =>
        /\ writes <= 1
        /\ \A p \in Procs :
            /\ LogHas(p, "resolve", "ok") => root[p] = "home"
            /\ (pc[p] \notin {"idle", "resolve"} /\ pre[p].dirs["home"]) =>
                    /\ log[p][1] = [step |-> "resolve", out |-> "ok", slot |-> ""]
                    /\ Count(log[p], "mkroot") = 0
                    /\ Count(log[p], "readme") = 0
                    /\ readme = pre[p].readme

C9_Witness ==
    \E p \in Procs :
        /\ override = "unset" /\ Done(p) /\ pre[p].dirs["home"]
        /\ writes = 1
        /\ LogHas(p, "resolve", "ok")

\* C10: a get for one toolchain leaves the directory and the artifact of
\* every other toolchain as they were, whether it succeeds or fails, and
\* none of its steps accesses another toolchain's directory.
C10_OtherToolchainUntouched ==
    \A p \in Procs :
        pc[p] # "idle" =>
            /\ \A r \in Roots : \A t \in Toolchains \ {tc[p]} :
                    art[r][t] = pre[p].art[r][t] /\ sub[r][t] = pre[p].sub[r][t]
            /\ \A i \in 1..Len(log[p]) : log[p][i].slot \in {"", tc[p]}

C10_Witness ==
    \E p \in Procs : \E t \in Toolchains \ {tc[p]} :
        /\ Done(p) /\ result[p].k = "err" /\ Builds(p) = 1
        /\ LogHas(p, "toolchain_path", "fail")
        /\ Current(art[CacheRoot][t])

\* C11: a build has a workspace exactly while its statements run: the
\* workspace is created empty by the build that uses it, and whatever way
\* the build ends (success, or a failure of the descriptor writes, of
\* cargo metadata, of the toolchain resolution, of cargo build, of the
\* copy) no workspace is left when get has returned; so a later build
\* finds none to reuse.
C11_WorkspaceScopedToBuild ==
    \A p \in Procs :
        /\ tmp[p].live <=> pc[p] \in BuildSteps
        /\ pc[p] = "initialize" => tmp[p].files = {} /\ ~tmp[p].bin
        /\ pc[p] \in {"tempdir", "done"} => tmp[p] = NoWs
        /\ Done(p) => \A i \in 1..Len(log[p]) :
                (log[p][i].step \in BuildSteps /\ log[p][i].out = "fail") => tmp[p] = NoWs

C11_Witness ==
    \E p \in Procs :
        /\ Done(p) /\ Builds(p) = 1 /\ LogHas(p, "cargo_build", "fail")
        /\ prev[p].k = "ok" /\ prev[p].builds = 1
        /\ tmp[p] = NoWs

\* C12 as stated: when two processes have both built and copied for one
\* toolchain and both have returned, the slot holds the complete output
\* of the build whose copy completed last, never a mixture.
C12_LastCopyWins ==
    \A p \in Procs : \A q \in Procs \ {p} :
        (/\ Succeeded(p) /\ Succeeded(q)
         /\ tc[p] = tc[q]
         /\ Builds(p) = 1 /\ Builds(q) = 1) =>
            SlotNow(p) = [BuiltDriver EXCEPT
                            !.parts = [i \in 1..Len(Chunks) |-> copier[CacheRoot][tc[p]]]]

\* C13 as stated: while one process is copying into the slot, no other
\* process's get is about to run, as the cached driver, a file whose
\* content is partially written.
C13_NoTornRead ==
    \A p \in Procs : \A q \in Procs \ {p} :
        (pc[q] = "copy_data" /\ tc[p] = tc[q] /\ root[p] = root[q]) =>
            ~(pc[p] = "query" /\ art[root[p]][tc[p]].k \in {"partial", "mixed"})

\* C14: when cargo build exits with a non-zero status, get returns the
\* build error, the copy is never started and the slot is as it was when
\* the call began; a copy into the slot is started only after a cargo
\* build that exited with status zero.
C14_FailedBuildWritesNothing ==
    \A p \in Procs :
        /\ (Done(p) /\ LogHas(p, "cargo_build", "fail")) =>
                /\ result[p] = Err("build")
                /\ Count(log[p], "copy_open") = 0
                /\ Count(log[p], "copy_data") = 0
                /\ SlotNow(p) = SlotBefore(p)
                /\ art = pre[p].art
        /\ Count(log[p], "copy_open") > 0 => LogHas(p, "cargo_build", "ok")

C14_Witness ==
    \E p \in Procs :
        /\ Done(p) /\ LogHas(p, "cargo_build", "fail")
        /\ SlotBefore(p).k = "exe" /\ LogHas(p, "query", "ok")
        /\ result[p] = Err("build")

\* A call of p that invoked build and returned an error.
FailedBuild(p) == Done(p) /\ result[p].k = "err" /\ Builds(p) = 1

\* C15 as stated: after a failed build the slot file is absent or
\* partially written.
C15_FailedBuildLeavesAbsentOrPartial ==
    \A p \in Procs : FailedBuild(p) => SlotNow(p).k \in {"absent", "partial"}

\* C15, amended: after a failed build the slot file is absent, or partially
\* written, or the file that was there before the call; in each case no
\* version query of it answers "not stale", so the next get does not take
\* the cache-hit path on it.
C15_FailedBuildLeavesNoCurrent ==
    \A p \in Procs :
        FailedBuild(p) =>
            /\ SlotNow(p).k \in {"absent", "partial"} \/ SlotNow(p) = SlotBefore(p)
            /\ ~Current(SlotNow(p))
            /\ \A run \in RunOutcomes(SlotNow(p)) : is_outdated(run, ours) # "fresh"

C15_Witness ==
    \E p \in Procs :
        /\ FailedBuild(p)
        /\ LogHas(p, "query", "ok")
        /\ SlotNow(p).k = "exe" /\ SlotNow(p) = SlotBefore(p)

\* C16: when the toolchain is not installed (toolchain_path fails), build
\* stops there: the descriptor files were generated and cargo metadata has
\* run, cargo build is never spawned, the slot is not written, and get
\* returns the error of toolchain_path.
C16_MissingToolchainStopsBuild ==
    \A p \in Procs :
        LogHas(p, "toolchain_path", "fail") =>
            /\ Done(p)
            /\ result[p] = Err("toolchain_path")
            /\ Len(wrote[p]) = Len(WsFiles)
            /\ LogHas(p, "initialize", "ok") /\ LogHas(p, "metadata", "ok")
            /\ Count(log[p], "cargo_build") = 0 /\ ~spawn[p].spawned
            /\ Count(log[p], "copy_open") = 0
            /\ art = pre[p].art

C16_Witness ==
    \E p \in Procs :
        /\ Done(p) /\ LogHas(p, "toolchain_path", "fail")
        /\ SlotBefore(p).k = "absent"
        /\ sub[CacheRoot][tc[p]]

C18_NothingDeleted ==
    [][\A r \in Roots :
        /\ dirs[r] => dirs'[r]
        /\ readme[r] => readme'[r]
        /\ \A t \in Toolchains :
            /\ sub[r][t] => sub'[r][t]
            /\ art[r][t].k # "absent" => art'[r][t].k # "absent"]_vars

C18_Witness ==
    \E p \in Procs : \E q \in Procs \ {p} :
        /\ Done(p) /\ result[p].k = "err" /\ LogHas(p, "copy_data", "fail")
        /\ Done(q) /\ tc[q] = tc[p]
        /\ SlotBefore(p).k = "exe" /\ SlotNow(p).k = "partial"
        /\ dirs[CacheRoot] /\ readme[CacheRoot] /\ sub[CacheRoot][tc[p]]

\* C19: cargo build is spawned with RUSTFLAGS equal to the rpath flag
\* computed from the resolved toolchain directory, whatever the caller's
\* environment held for RUSTFLAGS or for a variable that is cleared; the
\* cleared variables are unset in the child, and its working directory is
\* the temporary workspace of this build.
C19_ChildEnvironment ==
    \A p \in Procs :
        spawn[p].spawned =>
            /\ spawn[p].env["RUSTFLAGS"] = rustflags(ToolchainRoot(tc[p]))
            /\ \A v \in Cleared : spawn[p].env[v] = <<>>
            /\ spawn[p].cwd = Package(p)
            /\ pc[p] \in BuildSteps => tmp[p].live

C19_Witness ==
    \E p \in Procs :
        /\ spawn[p].spawned /\ pc[p] = "copy_open"
        /\ spawn[p].ambient["RUSTFLAGS"] = <<"ambient">>
        /\ \A v \in Cleared : spawn[p].ambient[v] # <<>>
        /\ spawn[p].env["RUSTFLAGS"] # spawn[p].ambient["RUSTFLAGS"]

\* The files, and the directories, among what initialize created.
FilesWritten(p) == {i \in 1..Len(wrote[p]) : wrote[p][i].kind = "file"}
DirsCreated(p) == {i \in 1..Len(wrote[p]) : wrote[p][i].kind = "dir"}

\* C20 as stated: a descriptor generation that succeeds has written
\* exactly four files.
C20_FourFilesWritten ==
    \A p \in Procs :
        LogHas(p, "initialize", "ok") => Cardinality(FilesWritten(p)) = Len(WsFiles)

\* C20, amended: descriptor generation creates, in this order and all
\* inside the workspace, the files Cargo.toml and rust-toolchain, the
\* directory src and the file src/main.rs: three files and one directory.
\* It stops with an I/O error at the first of them that cannot be created;
\* the ones created before it are the ones it leaves in the workspace.
C20_DescriptorEntries ==
    \A p \in Procs :
        /\ Len(wrote[p]) <= Len(WsFiles)
        /\ \A i \in 1..Len(wrote[p]) : wrote[p][i] = WsEntry(p, i)
        /\ LogHas(p, "initialize", "ok") =>
                /\ Len(wrote[p]) = Len(WsFiles)
                /\ Cardinality(FilesWritten(p)) = Len(WsFiles) - 1
                /\ DirsCreated(p) = {i \in 1..Len(WsFiles) : WsFiles[i] = "src"}
        /\ pc[p] = "metadata" => tmp[p].files = {wrote[p][i].name : i \in 1..Len(wrote[p])}
        /\ LogHas(p, "initialize", "fail") =>
                /\ Len(wrote[p]) < Len(WsFiles)
                /\ Done(p) /\ result[p] = Err("write")
        /\ Count(log[p], "initialize") = 0 => wrote[p] = <<>>

C20_Witness ==
    \E p \in Procs :
        /\ Done(p) /\ LogHas(p, "initialize", "fail")
        /\ Len(wrote[p]) = Len(WsFiles) - 1
        /\ Cardinality(FilesWritten(p)) = Len(WsFiles) - 2

\* The subprocesses a get call spawns, by the step that waits for them.
SubprocessSteps == {"query", "metadata", "toolchain_path", "cargo_build"}

\* What p's current call has done so far is one pass through get: at most
\* one version query, at most one build, each subprocess spawned at most
\* once, no version query after the build has begun, nothing after a
\* failed step.
OnePass(p) ==
    /\ Queries(p) <= 1
    /\ Builds(p) <= 1
    /\ \A s \in SubprocessSteps : Count(log[p], s) <= 1
    /\ \A i \in 1..Len(log[p]) : \A j \in 1..Len(log[p]) :
            (log[p][i].step = "tempdir" /\ log[p][j].step = "query") => j < i
    /\ \A i \in 1..Len(log[p]) : log[p][i].out = "fail" => i = Len(log[p]) /\ Done(p)
    /\ Done(p) => result[p] = Ok(root[p], tc[p]) \/ result[p].k = "err"

\* C21: a get call runs the version query at most once and the build at
\* most once, never a version query after the build, and spawns no
\* subprocess a second time; and when every subprocess terminates, a call
\* that has begun ends, with a path or with an error.
C21_OnePassAndTerminates ==
    /\ [](\A p \in Procs : OnePass(p))
    /\ \A p \in Procs : (pc[p] = "resolve") ~> Done(p)

C21_Witness ==
    \E p \in Procs :
        /\ Succeeded(p) /\ Queries(p) = 1 /\ Builds(p) = 1
        /\ \A s \in SubprocessSteps : Count(log[p], s) = 1

\* What p's current call has done so far is what a cache hit may do: the
\* artifacts are as they were when the call began, no build was begun, no
\* workspace exists, no build tool was spawned, and if the call has
\* returned it returned the path.
OnlyLooked(p) ==
    /\ art = pre[p].art
    /\ Builds(p) = 0
    /\ tmp[p] = NoWs
    /\ ToolSpawns(p) = 0 /\ ~spawn[p].spawned
    /\ wrote[p] = <<>>
    /\ Done(p) => result[p] = Ok(CacheRoot, tc[p]) /\ Queries(p) = 1

\* C22: when the slot file exists at the call and reports a version equal
\* to or newer than CARGO_PKG_VERSION, get leaves its content unchanged,
\* creates no temporary workspace and spawns no build tool; so a newer
\* artifact is never overwritten by the build of an older tool.
C22_HitLeavesArtifact ==
    \A p \in Procs : OnlyLooked(p) \/ pc[p] = "idle" \/ ~Current(SlotBefore(p))

C22_Witness ==
    \E p \in Procs :
        /\ Succeeded(p) /\ Queries(p) = 1
        /\ Current(SlotBefore(p))
        /\ VersionLess(VersionParse(ours), Reported(SlotBefore(p)))
        /\ SlotNow(p) = SlotBefore(p)

====
